---- MODULE Spec2Model ----
(***************************************************************************)
(* The package view-server lifecycle of inspect_vscode:                    *)
(*   PackageViewServer (src/src/core/package/view-server.ts): the child    *)
(*     process handle, port and auth token of one logical server, its      *)
(*     startup lock, ensureRunning(), api()/apiGeneric(), shutdown();      *)
(*   PackageManager (src/src/core/package/manager.ts): the package check,  *)
(*     the onPackageChanged event and the package-watch interval timer;    *)
(*   PackagePropsCache / packageBinPath (src/unnamed/part_030): the cached *)
(*     binary path both of them read;                                      *)
(*   InspectViewServer / ScoutViewServer (src/src/providers): the two      *)
(*     instances of the view server, and proxyRpcRequest();                *)
(*   OutputWatcher (src/unnamed/part_030): the poll of the signal files.   *)
(* Node runs the extension on one event loop: every action below is one    *)
(* event-loop task together with the promise continuations (microtasks)    *)
(* it triggers.                                                            *)
(***************************************************************************)
EXTENDS Integers, Sequences, FiniteSets, TLC

\* ------------------------------------------------------------------ bounds
MaxSpawn == 2        \* child processes spawned in one behaviour
MaxTokens == 3       \* randomUUID() calls in one behaviour
MaxVersion == 2      \* installed package versions 1..MaxVersion
MaxChunk == 2        \* tokens in one stdout/stderr data chunk
MaxLeaked == 1       \* interval timers no longer referenced by packageTimer
MaxBytes == 4        \* bytes in one response body
EventWrap == 3       \* the event counter wraps at this value
MaxTime == 2         \* clock ticks after the OutputWatcher's construction
MaxComponent == 2    \* major, minor and patch numbers are 0..MaxComponent
MaxRuns == 2         \* ExecManager.start() calls in one behaviour
MaxNodes == 3        \* nodes at the top level of a log tree
MaxInvalidate == 2   \* LogListing.invalidate() calls in one behaviour

Callers == {"c1", "c2"}          \* concurrent api()/apiGeneric() calls
BinPaths == {"binA"}             \* paths pythonBinaryPath() can return
Versions == 1..MaxVersion

\* ------------------------------------------------------- program constants
NoProcess == 0                   \* serverProcess_ = undefined
UndefinedPort == 0               \* serverPort_ = undefined
EmptyToken == 0                  \* serverAuthToken_ = ""
DefaultPort == 7576              \* defaultPort_ of the scout view server
Ports == {DefaultPort, DefaultPort + 1}
InspectPort == 7676              \* defaultPort_ of the inspect view server
Null == "null"                   \* a null AbsolutePath
Undefined == "undefined"         \* PackageManager.packageBinPath_ initially
NullExit == <<>>                 \* ChildProcess.exitCode = null
Sentinel == <<"Running", " on ">>  \* the substring "Running on "
Alphabet == {"Running", " on ", "x"}

VARIABLES
  serverProcess_,     \* NoProcess or the index in procs of the stored handle
  serverPort_,        \* UndefinedPort or a port
  serverAuthToken_,   \* EmptyToken or the n-th UUID
  procs,              \* every child process spawned so far, in spawn order
  lockHolder,         \* the call executing inside serverStartupLock_, or "none"
  lockQueue,          \* the calls queued on serverStartupLock_, FIFO
  pc,                 \* where each api() call stands
  nTokens,            \* randomUUID() calls made so far
  lastRequest,        \* the fetch() of the calls whose ensureRunning() resolved
  envBin,             \* where the package binary is installed now (or Null)
  envVer,             \* the installed package version now
  propsBin,           \* PackagePropsCache.binPath_
  packageBinPath_,    \* PackageManager.packageBinPath_
  packageTimer,       \* PackageManager.packageTimer is set
  leakedTimers,       \* active interval timers packageTimer no longer names
  lastCheck,          \* what checkForPackage_() returned to the last update
  eventCount,         \* onPackageChanged events fired so far, modulo EventWrap
  lastEvent,          \* the PackageChangedEvent fired last
  managerDisposed,    \* PackageManager.dispose() was called
  checkedSinceChange, \* a package check ran after the last version change
  inspect,            \* the InspectViewServer instance: its fields and call
  apiResult,          \* the last response api() handled, and its outcome
  proxyResult,        \* the last response proxyRpcRequest() handled
  signalFiles,        \* the signal files on disk, in the order they are watched
  clock,              \* Date.now(), counted from the OutputWatcher's construction
  watcher,            \* OutputWatcher: lastLog_, lastScan_, and its last poll
  versionCall,        \* the last call of a package version function
  exec,               \* the ExecManager, the terminals and debug sessions
  sortCall,           \* the last call of sortLogTree
  inspectApi,         \* the last public method call of the InspectViewServer
  listing             \* the LogListing: nodes_, its ls() calls, its fetcher

serverVars == <<serverProcess_, serverPort_, serverAuthToken_, procs,
                lockHolder, lockQueue, pc, nTokens, lastRequest>>
managerVars == <<packageBinPath_, packageTimer, leakedTimers, lastCheck,
                 eventCount, lastEvent, managerDisposed>>
envVars == <<envBin, envVer, propsBin, checkedSinceChange>>
watcherVars == <<signalFiles, clock, watcher>>
coreVars == <<serverVars, managerVars, envVars, inspect, apiResult,
              proxyResult, watcherVars>>
utilVars == <<versionCall, exec, sortCall, inspectApi, listing>>
otherVars == <<inspect, apiResult, proxyResult, watcherVars, utilVars>>
vars == <<serverVars, managerVars, envVars, otherVars>>

NoRequest == [auth |-> EmptyToken, port |-> UndefinedPort, proc |-> NoProcess,
              sent |-> FALSE]

\* ------------------------------------------------------------- helpers
Chunks == UNION { [1..n -> Alphabet] : n \in 1..MaxChunk }

\* output.includes("Running on ") on one data chunk
Includes(chunk, sub) ==
  \E i \in 1..Len(chunk) :
    /\ i + Len(sub) - 1 <= Len(chunk)
    /\ SubSeq(chunk, i, i + Len(sub) - 1) = sub

\* Whether the whole output so far contains the sentinel, kept as the state
\* of the substring matcher: "none", "half" (ends in "Running"), "has".
MatchStep(st, tok) ==
  IF st = "has" THEN "has"
  ELSE IF st = "half" /\ tok = Sentinel[2] THEN "has"
  ELSE IF tok = Sentinel[1] THEN "half"
  ELSE "none"

RECURSIVE MatchChunk(_, _)
MatchChunk(st, chunk) ==
  IF chunk = <<>> THEN st
  ELSE MatchChunk(MatchStep(st, Head(chunk)), Tail(chunk))

Range(seq) == { seq[i] : i \in 1..Len(seq) }

\* ------------------------------------------------- package props cache
\* packageBinPath(cache): the cached path, else the active interpreter's
\* binary (null when there is none). setBinPath() stores a non-null result,
\* so the cache after the call equals the value returned.
PackageBinPath == IF propsBin # Null THEN propsBin ELSE envBin

\* binPath?.path
PathOf(binPath) == IF binPath = Null THEN Undefined ELSE binPath

\* ------------------------------------------------------ view server
\* faulty variant: the test without the exitCode/undefined check: always launch
NeedsLaunchAlways(handle, ps) == TRUE

\* faulty variant: the exitCode test inverted: a live handle is relaunched
NeedsLaunchInverted(handle, ps) ==
  handle = NoProcess \/ ps[handle].exitCode = NullExit

\* faulty variant: the test without "exitCode !== null"
NeedsLaunchNoExitCheck(handle, ps) == handle = NoProcess

\* ensureRunning()'s test before a launch
NeedsLaunch(handle, ps) ==
  handle = NoProcess \/ ps[handle].exitCode # NullExit

\* faulty variant: onOutput resolving on any output at all
SentinelSeenAnyOutput(chunk) == Len(chunk) > 0

\* onOutput's readiness test on one data chunk
SentinelSeen(chunk) == Includes(chunk, Sentinel)

\* the fetch() of api()/apiGeneric(): Authorization = serverAuthToken_,
\* URL = http://localhost:${serverPort_}...
Request(handle) ==
  [auth |-> serverAuthToken_, port |-> serverPort_, proc |-> handle,
   sent |-> TRUE]

\* faulty variant: the process is always started on the default port
NewProcessDefaultPort(port, token) ==
  [status |-> "running", exitCode |-> NullExit, port |-> DefaultPort,
   token |-> token, out |-> "none", promise |-> "pending",
   resolved |-> FALSE, ver |-> envVer]

\* spawnProcess(): a new ChildProcess
NewProcess(port, token) ==
  [status |-> "running", exitCode |-> NullExit, port |-> port,
   token |-> token, out |-> "none", promise |-> "pending",
   resolved |-> FALSE, ver |-> envVer]

\* a spawn that fails (the binary is not at the path any more): Node sets a
\* negative exitCode and emits 'error' before any other event is handled
FailedProcess(port, token) ==
  [NewProcess(port, token) EXCEPT
     !.status = "closed", !.exitCode = <<-2>>, !.promise = "rejected"]

\* async-lock's done(): the holder's acquire() promise is settled (pcSettled
\* holds its outcome) and the queued tasks run. A queued task whose fn finds
\* the handle live returns at once and the next one runs; one that finds a
\* launch needed clears the handle, calls findOpenPort() and keeps the lock.
Release(pcSettled, handleAfter, needs) ==
  IF lockQueue = <<>> THEN
    /\ pc' = pcSettled
    /\ lockHolder' = "none"
    /\ lockQueue' = <<>>
    /\ serverProcess_' = handleAfter
  ELSE IF needs THEN
    /\ pc' = [pcSettled EXCEPT ![Head(lockQueue)] = "findPort"]
    /\ lockHolder' = Head(lockQueue)
    /\ lockQueue' = Tail(lockQueue)
    /\ serverProcess_' = NoProcess
  ELSE
    /\ pc' = [c \in Callers |->
                IF c \in Range(lockQueue) THEN "resolved" ELSE pcSettled[c]]
    /\ lockHolder' = "none"
    /\ lockQueue' = <<>>
    /\ serverProcess_' = handleAfter

\* api()/apiGeneric(): await ensureRunning(), then fetch()
Call(c) ==
  /\ UNCHANGED otherVars
  /\ pc[c] = "idle"
  /\ IF lockHolder # "none" THEN
       /\ pc' = [pc EXCEPT ![c] = "waiting"]
       /\ lockQueue' = Append(lockQueue, c)
       /\ UNCHANGED <<serverProcess_, lockHolder, lastRequest>>
     ELSE IF NeedsLaunch(serverProcess_, procs) THEN
       /\ pc' = [pc EXCEPT ![c] = "findPort"]
       /\ lockHolder' = c
       /\ serverProcess_' = NoProcess
       /\ UNCHANGED <<lockQueue, lastRequest>>
     ELSE
       /\ pc' = [pc EXCEPT ![c] = "resolved"]
       /\ lastRequest' = Request(serverProcess_)
       /\ UNCHANGED <<serverProcess_, lockHolder, lockQueue>>
  /\ UNCHANGED <<serverPort_, serverAuthToken_, procs, nTokens>>
  /\ UNCHANGED <<managerVars, envVars>>

\* the caller has consumed the result of its call
Return(c) ==
  /\ UNCHANGED otherVars
  /\ pc[c] \in {"resolved", "notFound", "spawnError", "portError"}
  /\ pc' = [pc EXCEPT ![c] = "idle"]
  /\ lastRequest' = IF \E d \in Callers \ {c} : pc[d] = "resolved"
                    THEN lastRequest ELSE NoRequest
  /\ UNCHANGED <<serverProcess_, serverPort_, serverAuthToken_, procs,
                 lockHolder, lockQueue, nTokens>>
  /\ UNCHANGED <<managerVars, envVars>>

\* findOpenPort() found no port: the lock's fn rejects
PortFail(c) ==
  /\ UNCHANGED otherVars
  /\ pc[c] = "findPort"
  /\ Release([pc EXCEPT ![c] = "portError"], serverProcess_, TRUE)
  /\ UNCHANGED <<serverPort_, serverAuthToken_, procs, nTokens, lastRequest>>
  /\ UNCHANGED <<managerVars, envVars>>

\* findOpenPort(defaultPort_): the preferred port, or the next one when a
\* child of this instance that has not exited still holds it
PortHeld(port) ==
  \E p \in 1..Len(procs) :
    procs[p].status \in {"running", "killed"} /\ procs[p].port = port

FindOpenPort ==
  { port \in Ports :
      ~PortHeld(port) /\ \A q \in Ports : q < port => PortHeld(q) }

\* faulty variant: the executor without its "if (!inspect) throw"
LaunchOutcomeNoCheck(bin) ==
  IF bin = envBin THEN "launching" ELSE "spawnError"

\* What the launch promise's executor does with the path packageBinPath_()
\* returned: throw (package installation not found), or spawn, which fails
\* at once when the binary is not at that path any more
LaunchOutcome(bin) ==
  IF bin = Null THEN "notFound"
  ELSE IF bin = envBin THEN "launching"
  ELSE "spawnError"

\* faulty variant: the token generated before is handed out again
RandomUUIDRepeated(n) == IF n = 0 THEN 1 ELSE n

\* randomUUID() when n tokens were generated before: a token none of them
\* equals
RandomUUID(n) == n + 1

\* findOpenPort() returned: the rest of the lock's fn up to the pending
\* launch promise
PortFound(c, port) ==
  /\ UNCHANGED otherVars
  /\ pc[c] = "findPort"
  /\ nTokens < MaxTokens
  /\ port \in FindOpenPort
  /\ serverPort_' = port
  /\ nTokens' = nTokens + 1
  /\ serverAuthToken_' = RandomUUID(nTokens)
  /\ propsBin' = PackageBinPath
  /\ UNCHANGED <<envBin, envVer, checkedSinceChange, managerVars, lastRequest>>
  /\ LET outcome == LaunchOutcome(PackageBinPath)
     IN IF outcome = "notFound" THEN
          /\ procs' = procs
          /\ Release([pc EXCEPT ![c] = "notFound"], NoProcess, TRUE)
        ELSE
          /\ Len(procs) < MaxSpawn
          /\ IF outcome = "launching" THEN
               /\ procs' = Append(procs, NewProcess(port, RandomUUID(nTokens)))
               /\ serverProcess_' = Len(procs) + 1
               /\ pc' = [pc EXCEPT ![c] = "launching"]
               /\ UNCHANGED <<lockHolder, lockQueue>>
             ELSE
               /\ procs' = Append(procs, FailedProcess(port, RandomUUID(nTokens)))
               /\ Release([pc EXCEPT ![c] = "spawnError"], Len(procs) + 1,
                          TRUE)

\* a 'data' event of the child's stdout or stderr: onOutput(chunk)
ProcOutput(p, chunk) ==
  /\ UNCHANGED otherVars
  /\ p \in 1..Len(procs)
  /\ procs[p].status \in {"running", "killed", "exited"}
  /\ procs[p].promise = "pending"
  /\ LET hit == ~procs[p].resolved /\ SentinelSeen(chunk)
         out == MatchChunk(procs[p].out, chunk)
     IN IF hit THEN
          /\ procs' = [procs EXCEPT ![p].out = out, ![p].resolved = TRUE,
                                    ![p].promise = "resolved"]
          /\ lastRequest' = Request(serverProcess_)
          /\ Release([pc EXCEPT ![lockHolder] = "resolved"], serverProcess_,
                     NeedsLaunch(serverProcess_, procs))
        ELSE
          /\ procs' = [procs EXCEPT ![p].out = out]
          /\ UNCHANGED <<serverProcess_, lockHolder, lockQueue, pc,
                         lastRequest>>
  /\ UNCHANGED <<serverPort_, serverAuthToken_, nTokens>>
  /\ UNCHANGED <<managerVars, envVars>>

\* the child exits: Node sets exitCode; its stdio may still deliver data
ProcExit(p) ==
  /\ UNCHANGED otherVars
  /\ p \in 1..Len(procs)
  /\ procs[p].status \in {"running", "killed"}
  /\ procs' = [procs EXCEPT ![p].status = "exited", ![p].exitCode = <<1>>]
  /\ UNCHANGED <<serverProcess_, serverPort_, serverAuthToken_, lockHolder,
                 lockQueue, pc, nTokens, lastRequest>>
  /\ UNCHANGED <<managerVars, envVars>>

\* the 'close' event: onClose(code) writes a line to the output channel
ProcClose(p) ==
  /\ UNCHANGED otherVars
  /\ p \in 1..Len(procs)
  /\ procs[p].status = "exited"
  /\ procs' = [procs EXCEPT ![p].status = "closed"]
  /\ UNCHANGED <<serverProcess_, serverPort_, serverAuthToken_, lockHolder,
                 lockQueue, pc, nTokens, lastRequest>>
  /\ UNCHANGED <<managerVars, envVars>>

\* faulty variant: shutdown() that leaves serverAuthToken_ as it is
ShutdownKeepsToken ==
  /\ procs' = IF serverProcess_ # NoProcess
                 /\ procs[serverProcess_].status = "running"
              THEN [procs EXCEPT ![serverProcess_].status = "killed"]
              ELSE procs
  /\ serverProcess_' = NoProcess
  /\ serverPort_' = UndefinedPort
  /\ UNCHANGED <<serverAuthToken_, lockHolder, lockQueue, pc, nTokens,
                 lastRequest>>

\* shutdown(): kill() signals the child, which is "killed" until it exits
\* (it may still write output); then the three fields are reset
Shutdown ==
  /\ procs' = IF serverProcess_ # NoProcess
                 /\ procs[serverProcess_].status = "running"
              THEN [procs EXCEPT ![serverProcess_].status = "killed"]
              ELSE procs
  /\ serverProcess_' = NoProcess
  /\ serverPort_' = UndefinedPort
  /\ serverAuthToken_' = EmptyToken
  /\ UNCHANGED <<lockHolder, lockQueue, pc, nTokens, lastRequest>>

\* dispose(): shutdown() and the output channel's disposal
Dispose ==
  /\ UNCHANGED otherVars
  /\ Shutdown
  /\ UNCHANGED <<managerVars, envVars>>

\* the subscription made in the constructor: onPackageChanged => shutdown()
PackageChanged ==
  /\ UNCHANGED otherVars
  /\ Shutdown
  /\ UNCHANGED <<managerVars, envVars>>

\* PackagePropsCache's own pythonInterpreter().onDidChange listener
PropsReset ==
  /\ UNCHANGED otherVars
  /\ propsBin' = Null
  /\ UNCHANGED <<envBin, envVer, checkedSinceChange, managerVars, serverVars>>

\* --------------------------------------------- api(): the response
StatusOK == 200                  \* the status api() compares with
StatusNoContent == 204           \* another status with response.ok
StatusNotModified == 304         \* mapped to kNotModifiedSignal
StatusNotFound == 404            \* mapped to kNotFoundSignal
StatusServerError == 500         \* a status no handler maps
Statuses == {StatusOK, StatusNoContent, StatusNotModified, StatusNotFound,
             StatusServerError}
Bodies == {"", "detail"}         \* response.text()
Handlers == {"none", "signals"}  \* no handleError, or the 304/404 handler

NoResult == [kind |-> "none"]

\* response.statusText
StatusText(status) ==
  CASE status = StatusOK -> "OK"
    [] status = StatusNoContent -> "No Content"
    [] status = StatusNotModified -> "Not Modified"
    [] status = StatusNotFound -> "Not Found"
    [] OTHER -> "Internal Server Error"

\* response.ok
ResponseOk(status) == status >= 200 /\ status <= 299

\* the handleError of evalLogPendingSamples / evalLogSampleData
HandleError(handler, status) ==
  IF handler = "none" THEN Undefined
  ELSE IF status = StatusNotFound THEN "NotFound"
  ELSE IF status = StatusNotModified THEN "NotModified"
  ELSE Undefined

\* faulty variant: any handler result is returned as data
TruthyAlways(value) == TRUE

\* JavaScript truthiness of a string | undefined
Truthy(value) == value # Undefined /\ value # ""

\* what api() does with the response of its fetch()
ApiOutcome(status, body, binary, handler) ==
  LET input == [status |-> status, body |-> body, binary |-> binary,
                handler |-> handler]
  IN IF ResponseOk(status) THEN
       [kind |-> "data", data |-> body, bytes |-> binary, input |-> input]
     ELSE IF status # StatusOK THEN
       IF handler # "none" /\ Truthy(HandleError(handler, status)) THEN
         [kind |-> "data", data |-> HandleError(handler, status),
          bytes |-> FALSE, input |-> input]
       ELSE
         [kind |-> "error", status |-> status,
          message |-> IF Truthy(body) THEN body ELSE StatusText(status),
          input |-> input]
     ELSE
       [kind |-> "error", status |-> status, message |-> StatusText(status),
        input |-> input]

\* api() after ensureRunning() resolved: the fetch() is answered and the
\* call returns the data or throws
ApiRespond(c, status, body, binary, handler) ==
  /\ pc[c] = "resolved"
  /\ apiResult' = ApiOutcome(status, body, binary, handler)
  /\ pc' = [pc EXCEPT ![c] = "idle"]
  /\ lastRequest' = IF \E d \in Callers \ {c} : pc[d] = "resolved"
                    THEN lastRequest ELSE NoRequest
  /\ UNCHANGED <<serverProcess_, serverPort_, serverAuthToken_, procs,
                 lockHolder, lockQueue, nTokens>>
  /\ UNCHANGED <<managerVars, envVars, utilVars, inspect, proxyResult, watcherVars>>

\* ------------------------------------ proxyRpcRequest(): the response
ByteValues == {0, 1, 128, 255}
Payloads == UNION { [1..n -> ByteValues] : n \in 0..MaxBytes }
ArrowType == <<"application/vnd.apache.arrow">>
ContentTypes == {<<>>, <<"application/json">>, ArrowType \o <<".stream">>}
Pad == 64                        \* the padding character "="
ReplacementChar == 65533         \* U+FFFD

\* response.headers.get("Content-Type")?.includes("application/vnd.apache.arrow")
IsBinary(contentType) == Includes(contentType, ArrowType)

\* response.text(): UTF-8 decoding. Every byte of ByteValues below 128 is
\* one character; 128 and 255 start no valid sequence and each decode to U+FFFD
RECURSIVE Utf8Decode(_)
Utf8Decode(bytes) ==
  IF bytes = <<>> THEN <<>>
  ELSE <<IF Head(bytes) < 128 THEN Head(bytes) ELSE ReplacementChar>>
         \o Utf8Decode(Tail(bytes))

\* faulty variant: an encoder that drops a trailing group of one or two bytes
RECURSIVE Base64EncodeWholeGroups(_)
Base64EncodeWholeGroups(bytes) ==
  IF Len(bytes) < 3 THEN <<>>
  ELSE <<bytes[1] \div 4,
         (bytes[1] % 4) * 16 + bytes[2] \div 16,
         (bytes[2] % 16) * 4 + bytes[3] \div 64,
         bytes[3] % 64>> \o Base64EncodeWholeGroups(SubSeq(bytes, 4, Len(bytes)))

\* Buffer.from(data).toString("base64"): three bytes become four characters
\* (each given by its 6-bit index in the base64 alphabet), a last group of
\* one or two bytes is padded with "="
RECURSIVE Base64Encode(_)
Base64Encode(bytes) ==
  IF bytes = <<>> THEN <<>>
  ELSE IF Len(bytes) = 1 THEN
    <<bytes[1] \div 4, (bytes[1] % 4) * 16, Pad, Pad>>
  ELSE IF Len(bytes) = 2 THEN
    <<bytes[1] \div 4,
      (bytes[1] % 4) * 16 + bytes[2] \div 16,
      (bytes[2] % 16) * 4, Pad>>
  ELSE <<bytes[1] \div 4,
         (bytes[1] % 4) * 16 + bytes[2] \div 16,
         (bytes[2] % 16) * 4 + bytes[3] \div 64,
         bytes[3] % 64>> \o Base64Encode(SubSeq(bytes, 4, Len(bytes)))

\* what proxyRpcRequest() returns for the response of its fetch(): the data
\* is a Uint8Array for an Arrow content type and the decoded text otherwise
ProxyRpcResponse(status, contentType, payload) ==
  LET input == [status |-> status, contentType |-> contentType,
                payload |-> payload]
  IN IF IsBinary(contentType) THEN
       [kind |-> "response", status |-> status,
        body |-> Base64Encode(payload), bodyEncoding |-> "base64",
        input |-> input]
     ELSE
       [kind |-> "response", status |-> status,
        body |-> Utf8Decode(payload), bodyEncoding |-> "utf8",
        input |-> input]

\* proxyRpcRequest() after ensureRunning() resolved: the fetch() is answered
\* and the response is serialised
ProxyRespond(c, status, contentType, payload) ==
  /\ pc[c] = "resolved"
  /\ proxyResult = NoResult
  /\ proxyResult' = ProxyRpcResponse(status, contentType, payload)
  /\ pc' = [pc EXCEPT ![c] = "idle"]
  /\ lastRequest' = IF \E d \in Callers \ {c} : pc[d] = "resolved"
                    THEN lastRequest ELSE NoRequest
  /\ UNCHANGED <<serverProcess_, serverPort_, serverAuthToken_, procs,
                 lockHolder, lockQueue, nTokens>>
  /\ UNCHANGED <<managerVars, envVars, utilVars, inspect, apiResult, watcherVars>>

\* the panel's JSON-RPC handler has posted the response to the webview
ProxyReply ==
  /\ proxyResult # NoResult
  /\ proxyResult' = NoResult
  /\ UNCHANGED <<serverVars, managerVars, envVars, utilVars, inspect, apiResult,
                 watcherVars>>

\* ------------------------------------- a second view server instance
\* The InspectViewServer, constructed next to the scout view server: the
\* same class with fields of its own, here with one client, one tracked
\* child process (the one launched last) and its package installed.
NoInspect ==
  [pc |-> "idle", serverProcess_ |-> NoProcess, serverPort_ |-> UndefinedPort,
   serverAuthToken_ |-> EmptyToken, procs |-> <<>>]

\* faulty variant: one startup lock shared by the instances
StartupLockShared(inst) == "scout"

\* serverStartupLock_: each instance constructs an AsyncLock of its own
StartupLock(inst) == inst

\* whether a task is executing under the lock object
LockHeld(lock) ==
  \/ lock = "scout" /\ lockHolder # "none"
  \/ lock = "inspect" /\ inspect.pc \in {"findPort", "launching"}

\* api(): ensureRunning() asks its lock for the startup task
InspectCall ==
  /\ inspect.pc = "idle"
  /\ inspect' = [inspect EXCEPT !.pc = "acquiring"]
  /\ UNCHANGED <<serverVars, managerVars, envVars, utilVars, apiResult, proxyResult,
                 watcherVars>>

\* the lock runs the task: the test before a launch
InspectAcquire ==
  /\ inspect.pc = "acquiring"
  /\ ~LockHeld(StartupLock("inspect"))
  /\ inspect' =
       IF NeedsLaunch(inspect.serverProcess_, inspect.procs)
       THEN [inspect EXCEPT !.pc = "findPort", !.serverProcess_ = NoProcess]
       ELSE [inspect EXCEPT !.pc = "resolved"]
  /\ UNCHANGED <<serverVars, managerVars, envVars, utilVars, apiResult, proxyResult,
                 watcherVars>>

\* findOpenPort() returned: port, token and the spawned process
InspectPortFound ==
  /\ inspect.pc = "findPort"
  /\ nTokens < MaxTokens
  /\ nTokens' = nTokens + 1
  /\ inspect' = [inspect EXCEPT
                   !.pc = "launching",
                   !.serverPort_ = InspectPort,
                   !.serverAuthToken_ = nTokens + 1,
                   !.serverProcess_ = 1,
                   !.procs = <<NewProcess(InspectPort, nTokens + 1)>>]
  /\ UNCHANGED <<serverProcess_, serverPort_, serverAuthToken_, procs,
                 lockHolder, lockQueue, pc, lastRequest>>
  /\ UNCHANGED <<managerVars, envVars, utilVars, apiResult, proxyResult, watcherVars>>

\* a 'data' event of its child: onOutput(chunk)
InspectOutput(chunk) ==
  /\ inspect.procs # <<>>
  /\ inspect.procs[1].promise = "pending"
  /\ inspect.procs[1].status \in {"running", "killed", "exited"}
  /\ inspect' =
       IF SentinelSeen(chunk)
       THEN [inspect EXCEPT !.pc = "resolved",
                            !.procs[1].out = "has",
                            !.procs[1].resolved = TRUE,
                            !.procs[1].promise = "resolved"]
       ELSE [inspect EXCEPT
               !.procs[1].out = MatchChunk(inspect.procs[1].out, chunk)]
  /\ UNCHANGED <<serverVars, managerVars, envVars, utilVars, apiResult, proxyResult,
                 watcherVars>>

\* its child exits and closes
InspectExit ==
  /\ inspect.procs # <<>>
  /\ inspect.procs[1].status \in {"running", "killed"}
  /\ inspect' = [inspect EXCEPT !.procs[1].status = "closed",
                                !.procs[1].exitCode = <<1>>]
  /\ UNCHANGED <<serverVars, managerVars, envVars, utilVars, apiResult, proxyResult,
                 watcherVars>>

\* the client has consumed the result
InspectReturn ==
  /\ inspect.pc = "resolved"
  /\ inspect' = [inspect EXCEPT !.pc = "idle"]
  /\ UNCHANGED <<serverVars, managerVars, envVars, utilVars, apiResult, proxyResult,
                 watcherVars>>

\* its dispose(): shutdown()
InspectDispose ==
  /\ inspect' =
       [inspect EXCEPT
          !.serverProcess_ = NoProcess,
          !.serverPort_ = UndefinedPort,
          !.serverAuthToken_ = EmptyToken,
          !.procs = IF inspect.serverProcess_ # NoProcess
                       /\ inspect.procs[1].status = "running"
                    THEN [inspect.procs EXCEPT ![1].status = "killed"]
                    ELSE inspect.procs]
  /\ UNCHANGED <<serverVars, managerVars, envVars, utilVars, apiResult, proxyResult,
                 watcherVars>>

\* ------------------------------ InspectViewServer: its public methods
\* What hasMinimumInspectVersion answers for the installed Inspect: whether
\* it has kInspectEvalLogFormatVersion and kInspectLogMessageVersion. The
\* two constants are compared with the same installed version; no order
\* between them is assumed.
InspectVersions == [evalLogFormat : BOOLEAN, logMessage : BOOLEAN]
NotImplemented ==
  {"evalLogDir", "evalLogFiles", "evalLogSize", "evalLogDelete",
   "evalLogBytes"}
CliFallback == {"evalLogs", "evalLog", "evalLogHeaders"}
Unconditional == {"evalLogPendingSamples", "evalLogSampleData"}
Methods ==
  NotImplemented \cup CliFallback \cup Unconditional
    \cup {"evalLogsSolo", "logMessage"}

NoInspectApi ==
  [version |-> [evalLogFormat |-> FALSE, logMessage |-> FALSE],
   method |-> "none", route |-> "none", outcome |-> "none",
   request |-> NoRequest]

\* haveInspectEvalLogFormat()
HaveInspectEvalLogFormat(version) == version.evalLogFormat

\* what a public method does after its version test: call api(), only
\* ensureRunning(), the CLI, throw 'not implemented', or return
Route(method, version) ==
  IF method \in NotImplemented
  THEN (IF HaveInspectEvalLogFormat(version) THEN "api" ELSE "notImplemented")
  ELSE IF method \in CliFallback
  THEN (IF HaveInspectEvalLogFormat(version) THEN "api" ELSE "cli")
  ELSE IF method = "evalLogsSolo"
  THEN (IF HaveInspectEvalLogFormat(version) THEN "ensureRunning"
        ELSE "return")
  ELSE IF method = "logMessage"
  THEN (IF version.logMessage THEN "api" ELSE "return")
  ELSE "api"

\* the fetch() of api() with the fields of the InspectViewServer
InspectRequest ==
  [auth |-> inspect.serverAuthToken_, port |-> inspect.serverPort_,
   proc |-> inspect.serverProcess_, sent |-> TRUE]

\* another Inspect version is installed (or Inspect is removed)
InspectInstall(version) ==
  /\ inspectApi.version # version
  /\ inspectApi' = [inspectApi EXCEPT !.version = version]
  /\ UNCHANGED <<coreVars, versionCall, exec, sortCall, listing>>

\* a public method of the InspectViewServer is called. api() awaits the
\* overridden ensureRunning(), which returns at once without the eval log
\* format and asks the startup lock otherwise.
InspectMethod(method) ==
  LET version == inspectApi.version
      route == Route(method, version)
      call == [inspectApi EXCEPT !.method = method, !.route = route]
  IN
  /\ inspect.pc = "idle"
  /\ inspectApi.outcome = "none"
  /\ IF route \in {"api", "ensureRunning"}
     THEN IF HaveInspectEvalLogFormat(version)
          THEN /\ inspect' = [inspect EXCEPT !.pc = "acquiring"]
               /\ inspectApi' = [call EXCEPT !.outcome = "pending"]
          ELSE /\ inspect' = inspect
               /\ inspectApi' =
                    IF route = "api"
                    THEN [call EXCEPT !.outcome = "fetch",
                                      !.request = InspectRequest]
                    ELSE [call EXCEPT !.outcome = "returned"]
     ELSE /\ inspect' = inspect
          /\ inspectApi' =
               [call EXCEPT !.outcome =
                  IF route = "cli" THEN "cli"
                  ELSE IF route = "notImplemented" THEN "threw"
                  ELSE "returned"]
  /\ UNCHANGED <<serverVars, managerVars, envVars, apiResult, proxyResult,
                 watcherVars, versionCall, exec, sortCall, listing>>

\* ensureRunning() resolved: api() goes on to its fetch(), evalLogsSolo
\* returns
InspectFetch ==
  /\ inspect.pc = "resolved"
  /\ inspectApi.outcome = "pending"
  /\ inspect' = [inspect EXCEPT !.pc = "idle"]
  /\ inspectApi' =
       IF inspectApi.route = "api"
       THEN [inspectApi EXCEPT !.outcome = "fetch",
                               !.request = InspectRequest]
       ELSE [inspectApi EXCEPT !.outcome = "returned"]
  /\ UNCHANGED <<serverVars, managerVars, envVars, apiResult, proxyResult,
                 watcherVars, versionCall, exec, sortCall, listing>>

\* the caller has the method's result
InspectMethodDone ==
  /\ inspectApi.outcome \notin {"none", "pending"}
  /\ inspectApi' = [NoInspectApi EXCEPT !.version = inspectApi.version]
  /\ UNCHANGED <<coreVars, versionCall, exec, sortCall, listing>>

\* ------------------------------------------------- output watcher
\* evalSignalFiles: the last-eval paths, then the last-scan paths
SignalTypes == <<"log", "log", "scan">>
SignalFiles == 1..Len(SignalTypes)
NoFile == [mtime |-> -1, contents |-> "absent"]
\* contents of a signal file: JSON with a location, JSON without one, and
\* text that is no JSON
Contents == {"json", "nolocation", "malformed"}

NoPoll == [polled |-> FALSE, jsonFormat |-> FALSE, fired |-> <<>>,
           threw |-> FALSE]

\* JSON.parse(contents) throws a SyntaxError
ParseThrows(contents) == contents = "malformed"

\* faulty variant: a modification time equal to the recorded one counts
IsNewerOrEqual(updated, lastTime) == updated >= lastTime

\* faulty variant: the time is compared with the construction time only
IsNewerThanStart(updated, lastTime) == updated > 0

\* updated > lastTime
IsNewer(updated, lastTime) == updated > lastTime

\* evalLogPath after the version-dependent reading of the contents: the
\* location of the parsed object (undefined when it has none), or the raw
\* contents for the old format
HasLogPath(contents, jsonFormat) == jsonFormat => contents = "json"

\* The body of the setInterval callback from signal file i on, st holding
\* lastLog_, lastScan_, the events fired so far and whether an exception has
\* left the callback (which ends the loop)
RECURSIVE PollFrom(_, _, _)
PollFrom(i, st, jsonFormat) ==
  IF i > Len(SignalTypes) \/ st.threw THEN st
  ELSE
    LET file == signalFiles[i]
        type == SignalTypes[i]
        lastTime == IF type = "log" THEN st.lastLog_ ELSE st.lastScan_
    IN IF file = NoFile \/ ~IsNewer(file.mtime, lastTime) THEN
         PollFrom(i + 1, st, jsonFormat)
       ELSE
         LET st1 == IF type = "log"
                    THEN [st EXCEPT !.lastLog_ = file.mtime]
                    ELSE [st EXCEPT !.lastScan_ = file.mtime]
         IN IF jsonFormat /\ ParseThrows(file.contents) THEN
              [st1 EXCEPT !.threw = TRUE]
            ELSE IF HasLogPath(file.contents, jsonFormat) THEN
              PollFrom(i + 1,
                       [st1 EXCEPT !.fired = Append(@, [file |-> i,
                                                        type |-> type])],
                       jsonFormat)
            ELSE PollFrom(i + 1, st1, jsonFormat)

\* a tick of watchInterval_: the whole callback. jsonFormat is whether the
\* installed inspect has kInspectChangeEvalSignalVersion
Poll(jsonFormat) ==
  /\ watcher.watching
  /\ LET st == PollFrom(1, [lastLog_ |-> watcher.lastLog_,
                            lastScan_ |-> watcher.lastScan_,
                            fired |-> <<>>, threw |-> FALSE], jsonFormat)
     IN watcher' = [watcher EXCEPT
                      !.lastLog_ = st.lastLog_,
                      !.lastScan_ = st.lastScan_,
                      !.last = [polled |-> TRUE, jsonFormat |-> jsonFormat,
                                fired |-> st.fired, threw |-> st.threw]]
  /\ UNCHANGED <<signalFiles, clock>>
  /\ UNCHANGED <<serverVars, managerVars, envVars, utilVars, inspect, apiResult,
                 proxyResult>>

\* OutputWatcher.dispose(): the interval is cleared
WatcherDispose ==
  /\ watcher' = [watcher EXCEPT !.watching = FALSE]
  /\ UNCHANGED <<signalFiles, clock>>
  /\ UNCHANGED <<serverVars, managerVars, envVars, utilVars, inspect, apiResult,
                 proxyResult>>

\* the environment: time passes
ClockTick ==
  /\ clock < MaxTime
  /\ clock' = clock + 1
  /\ UNCHANGED <<signalFiles, watcher>>
  /\ UNCHANGED <<serverVars, managerVars, envVars, utilVars, inspect, apiResult,
                 proxyResult>>

\* the environment: an eval or scan process writes a signal file
WriteSignal(f, contents) ==
  /\ signalFiles' = [signalFiles EXCEPT
                       ![f] = [mtime |-> clock, contents |-> contents]]
  /\ UNCHANGED <<clock, watcher>>
  /\ UNCHANGED <<serverVars, managerVars, envVars, utilVars, inspect, apiResult,
                 proxyResult>>

\* ------------------------------------------------ package versions
\* a SemVer without prerelease: <<major, minor, patch>>
SemVers == [1..3 -> 0..MaxComponent]
\* a VersionDescriptor, or null
NoVersion == [version |-> <<>>, isDeveloperBuild |-> FALSE]
VersionDescriptors ==
  [version : SemVers, isDeveloperBuild : BOOLEAN] \cup {NoVersion}

\* SemVer.compare(): -1, 0 or 1, by major, then minor, then patch
Compare(a, b) ==
  IF a[1] # b[1] THEN (IF a[1] > b[1] THEN 1 ELSE -1)
  ELSE IF a[2] # b[2] THEN (IF a[2] > b[2] THEN 1 ELSE -1)
  ELSE IF a[3] # b[3] THEN (IF a[3] > b[3] THEN 1 ELSE -1)
  ELSE 0

\* faulty variant: developer builds are compared like releases
HasMinimumPackageVersionNoDev(version, packageVersion, strictDevCheck) ==
  packageVersion # NoVersion /\ Compare(packageVersion.version, version) >= 0

\* hasMinimumPackageVersion(version, packageVersion, strictDevCheck)
HasMinimumPackageVersion(version, packageVersion, strictDevCheck) ==
  IF packageVersion # NoVersion /\ packageVersion.isDeveloperBuild
     /\ strictDevCheck
  THEN LET installed == packageVersion.version
       IN /\ installed[1] >= version[1]
          /\ installed[2] >= version[2]
          /\ installed[3] > version[3]
  ELSE IF packageVersion # NoVersion
          /\ (Compare(packageVersion.version, version) >= 0
                \/ packageVersion.isDeveloperBuild)
       THEN TRUE
       ELSE FALSE

\* withMinimumPackageVersion(version, packageVersion, hasVersion,
\* doesntHaveVersion): which callbacks ran, and the value returned, for
\* callbacks that return hasValue and noValue
WithMinimumPackageVersion(version, packageVersion, hasValue, noValue) ==
  IF HasMinimumPackageVersion(version, packageVersion, FALSE)
  THEN [called |-> <<"hasVersion">>, returned |-> hasValue]
  ELSE [called |-> <<"doesntHaveVersion">>, returned |-> noValue]

NoVersionCall == [fn |-> "none"]
CallbackValues == {"has-version-result", "no-version-result"}

\* a call of hasMinimumPackageVersion
HasMinimumCall(version, packageVersion, strictDevCheck) ==
  /\ versionCall = NoVersionCall
  /\ versionCall' =
       [fn |-> "hasMinimumPackageVersion", version |-> version,
        packageVersion |-> packageVersion, strictDevCheck |-> strictDevCheck,
        result |-> HasMinimumPackageVersion(version, packageVersion,
                                            strictDevCheck)]
  /\ UNCHANGED <<coreVars, exec, sortCall, inspectApi, listing>>

\* a call of withMinimumPackageVersion
WithMinimumCall(version, packageVersion, hasValue, noValue) ==
  /\ versionCall = NoVersionCall
  /\ versionCall' =
       [fn |-> "withMinimumPackageVersion", version |-> version,
        packageVersion |-> packageVersion, hasValue |-> hasValue,
        noValue |-> noValue,
        result |-> WithMinimumPackageVersion(version, packageVersion,
                                             hasValue, noValue)]
  /\ UNCHANGED <<coreVars, exec, sortCall, inspectApi, listing>>

\* the caller has used the result
VersionReturn ==
  /\ versionCall # NoVersionCall
  /\ versionCall' = NoVersionCall
  /\ UNCHANGED <<coreVars, exec, sortCall, inspectApi, listing>>

\* ------------------------------------------------------ exec manager
\* The ExecProfiles of activateEvalManager() and activateScoutScanManager(),
\* less packageVersion.
InspectProfile ==
  [packageName |-> "inspect-ai", packageDisplayName |-> "Inspect",
   target |-> "Eval", terminal |-> "Inspect Eval", command |-> "inspect",
   subcommand |-> "eval"]
ScoutProfile ==
  [packageName |-> "inspect-scout", packageDisplayName |-> "Inspect Scout",
   target |-> "Scan", terminal |-> "Scout Scan", command |-> "scout",
   subcommand |-> "scan"]
Profiles == {InspectProfile, ScoutProfile}
\* profile.packageVersion: null, a release or a developer build
ExecVersions ==
  {NoVersion} \cup
  { [version |-> <<0, 1, 0>>, isDeveloperBuild |-> b] : b \in BOOLEAN }

kRequiredDelay == 1000
kInterval == 100

NoCall == [debug |-> FALSE, target |-> FALSE, python |-> FALSE]
\* before the ExecManager is constructed
NoExec ==
  [active |-> FALSE, profile |-> InspectProfile, packageVersion |-> NoVersion,
   pc |-> "idle", call |-> NoCall, totalSleep |-> 0, calls |-> <<>>,
   warnings |-> <<>>, terminals |-> {}, interacted |-> {}, created |-> 0,
   sent |-> <<>>, sessions |-> <<>>]

\* new ExecManager(profile, stateManager, context)
ExecActivate(profile, packageVersion) ==
  /\ ~exec.active
  /\ exec' = [exec EXCEPT !.active = TRUE, !.profile = profile,
                          !.packageVersion = packageVersion]
  /\ UNCHANGED <<coreVars, versionCall, sortCall, inspectApi, listing>>

\* faulty variant: the package is never found missing
NotInstalledNever(packageVersion) == FALSE

\* !this.profile_.packageVersion
NotInstalled(packageVersion) == packageVersion = NoVersion

\* the modal warning of start()
WarningMessage(profile, debug) ==
  [message |-> <<"Unable to", IF debug THEN "Debug" ELSE "Run",
                 profile.target, profile.packageDisplayName,
                 "Package Not Installed">>,
   modal |-> TRUE,
   detail |-> <<"pip install --upgrade", profile.packageName>>]

\* the args start() builds: the subcommand, the target argument, and the
\* profile's execArgs(docState, debug)
ExecArgs(profile, call) ==
  <<profile.subcommand,
    IF call.target THEN "relativePath@target" ELSE "relativePath",
    [execArgs |-> call.debug]>>

\* the two sendText() calls of runCommand
CommandTexts(profile, call) ==
  << [terminal |-> profile.terminal, text |-> <<"cd", "workspaceDir">>],
     [terminal |-> profile.terminal,
      text |-> (IF call.python
                THEN <<"python", "-m", profile.packageName>>
                ELSE <<profile.command>>) \o ExecArgs(profile, call)] >>

\* the DebugConfiguration of runDebugger
DebugConfiguration(profile, call) ==
  [name |-> profile.terminal, type |-> "debugpy", request |-> "launch",
   program |-> "binPath or command", args |-> ExecArgs(profile, call),
   console |-> "integratedTerminal", justMyCode |-> FALSE,
   pythonPath |-> call.python]

\* the wait loop of runCommand: leave it once the terminal was interacted
\* with or the required delay has passed
WaitOver(e) ==
  ~(e.profile.terminal \notin e.interacted /\ e.totalSleep < kRequiredDelay)

\* runCommand from the wait loop on
AfterWait(e) ==
  IF WaitOver(e)
  THEN [e EXCEPT !.pc = "idle",
                 !.sent = @ \o CommandTexts(e.profile, e.call)]
  ELSE [e EXCEPT !.pc = "sleeping"]

\* ExecManager.start(file, target, debug), up to its first await that
\* does not resolve at once
Start(debug, target, python) ==
  LET call == [debug |-> debug, target |-> target, python |-> python]
      e0 == [exec EXCEPT !.call = call, !.calls = Append(@, call),
                         !.totalSleep = 0]
  IN
  /\ exec.active
  /\ exec.pc = "idle"
  /\ Len(exec.calls) < MaxRuns
  /\ exec' =
       IF NotInstalled(exec.packageVersion)
       THEN [e0 EXCEPT !.pc = "warning",
                       !.warnings =
                         Append(@, WarningMessage(exec.profile, debug))]
       ELSE IF debug
       THEN [e0 EXCEPT !.pc = "debugging",
                       !.sessions =
                         Append(@, DebugConfiguration(exec.profile, call))]
       ELSE LET found == exec.profile.terminal \in exec.terminals
            IN AfterWait([e0 EXCEPT
                 !.terminals = @ \cup {exec.profile.terminal},
                 !.created = IF found THEN @ ELSE @ + 1])
  /\ UNCHANGED <<coreVars, versionCall, sortCall, inspectApi, listing>>

\* the user closes the modal warning: start() returns
WarningDismissed ==
  /\ exec.pc = "warning"
  /\ exec' = [exec EXCEPT !.pc = "idle"]
  /\ UNCHANGED <<coreVars, versionCall, sortCall, inspectApi, listing>>

\* debug.startDebugging() resolves: start() returns
DebugStarted ==
  /\ exec.pc = "debugging"
  /\ exec' = [exec EXCEPT !.pc = "idle"]
  /\ UNCHANGED <<coreVars, versionCall, sortCall, inspectApi, listing>>

\* sleep(kInterval) resolves inside the wait loop of runCommand
SleepElapsed ==
  /\ exec.pc = "sleeping"
  /\ exec' = AfterWait([exec EXCEPT !.totalSleep = @ + kInterval])
  /\ UNCHANGED <<coreVars, versionCall, sortCall, inspectApi, listing>>

\* the user types into a terminal: terminal.state.isInteractedWith
TerminalInteract(name) ==
  /\ name \in exec.terminals \ exec.interacted
  /\ exec' = [exec EXCEPT !.interacted = @ \cup {name}]
  /\ UNCHANGED <<coreVars, versionCall, sortCall, inspectApi, listing>>

\* --------------------------------------------------------- log tree
\* A LogNode: a file has an mtime and no children, a directory has children
\* and no mtime (0 stands for the absent field). A node's name is its path,
\* here the positions that lead to it in the tree as it was built.
Mtimes == {1000, 2000}
FileNodes == [type : {"file"}, name : {<<>>}, mtime : Mtimes,
              children : {<<>>}]
DirNodes(childLists) ==
  [type : {"dir"}, name : {<<>>}, mtime : {0}, children : childLists]
SeqsUpTo(S, n) == UNION { [1..k -> S] : k \in 0..n }
\* the trees sortLogTree is called with: directories down to the third
\* level, up to two nodes in a directory of the first level
LeafLists ==
  { << [type |-> "file", name |-> <<>>, mtime |-> 1000, children |-> <<>>],
       [type |-> "file", name |-> <<>>, mtime |-> 2000, children |-> <<>>]
    >> }
ChildLists == SeqsUpTo(FileNodes \cup DirNodes(LeafLists), 2)
LogTrees == SeqsUpTo(FileNodes \cup DirNodes(ChildLists), MaxNodes)

RECURSIVE Named(_, _)
Named(nodes, path) ==
  [i \in 1..Len(nodes) |->
     [nodes[i] EXCEPT !.name = Append(path, i),
                      !.children = Named(@, Append(path, i))]]

\* faulty variant: files are compared oldest first
CompareNodesAscending(a, b) ==
  IF a.type = "dir" /\ b.type = "dir" THEN 0
  ELSE IF a.type = "file" /\ b.type = "file" THEN a.mtime - b.mtime
  ELSE IF a.type = "dir" THEN -1
  ELSE 1

\* the comparator sortLogTree hands to Array.prototype.sort
CompareNodes(a, b) ==
  IF a.type = "dir" /\ b.type = "dir" THEN 0
  ELSE IF a.type = "file" /\ b.type = "file" THEN b.mtime - a.mtime
  ELSE IF a.type = "dir" THEN -1
  ELSE 1

\* Array.prototype.sort(comparator): a stable sort (ECMAScript 2019), here
\* by insertion: a node moves left past the nodes that compare greater
RECURSIVE InsertNode(_, _)
InsertNode(sorted, x) ==
  IF sorted = <<>> THEN <<x>>
  ELSE LET last == sorted[Len(sorted)]
       IN IF CompareNodes(last, x) > 0
          THEN Append(InsertNode(SubSeq(sorted, 1, Len(sorted) - 1), x), last)
          ELSE Append(sorted, x)

RECURSIVE ArraySort(_)
ArraySort(nodes) ==
  IF nodes = <<>> THEN <<>>
  ELSE InsertNode(ArraySort(SubSeq(nodes, 1, Len(nodes) - 1)),
                  nodes[Len(nodes)])

\* sortLogTree(nodes): sort the children of every directory, then this level
RECURSIVE SortLogTree(_)
SortLogTree(nodes) ==
  ArraySort([i \in 1..Len(nodes) |->
               IF nodes[i].type = "dir"
               THEN [nodes[i] EXCEPT !.children = SortLogTree(@)]
               ELSE nodes[i]])

NoSortCall == [called |-> FALSE, nodes |-> <<>>, result |-> <<>>]

\* a call of sortLogTree
SortCall(nodes) ==
  /\ ~sortCall.called
  /\ sortCall' = [called |-> TRUE, nodes |-> nodes,
                  result |-> SortLogTree(nodes)]
  /\ UNCHANGED <<coreVars, versionCall, exec, inspectApi, listing>>

\* the caller has used the result
SortReturn ==
  /\ sortCall.called
  /\ sortCall' = NoSortCall
  /\ UNCHANGED <<coreVars, versionCall, exec, inspectApi, listing>>

\* --------------------------------------------------------- log listing
\* nodes_ = undefined
NoNodes == [fetched |-> -1, empty |-> TRUE]
\* an ls() call that is not running
NoLs == [pc |-> "idle", started |-> 0, fetched |-> 0, result |-> NoNodes]
\* The LogListing after its construction. period counts the invalidate()
\* calls; fetches and mruUpdates count the logsFetcher_ invocations and the
\* mru_.add()/remove() calls since the last of them. The nodes of a fetch
\* are named by the period in which logsFetcher_ was invoked.
NoListing ==
  [nodes_ |-> NoNodes, period |-> 0, fetches |-> 0, mruUpdates |-> 0,
   calls |-> [c \in Callers |-> NoLs]]

\* this.nodes_ === undefined
NodesUndefined(nodes) == nodes = NoNodes

\* ls(parent) up to its first await: with nodes_ undefined listLogs() invokes
\* logsFetcher_ and the call waits for it; otherwise the call returns from
\* nodes_
Ls(c) ==
  /\ listing.calls[c].pc = "idle"
  /\ listing' =
       IF NodesUndefined(listing.nodes_)
       THEN [listing EXCEPT
               !.fetches = @ + 1,
               !.calls[c] = [pc |-> "fetching", started |-> listing.period,
                             fetched |-> listing.period, result |-> NoNodes]]
       ELSE [listing EXCEPT
               !.calls[c] = [pc |-> "done", started |-> listing.period,
                             fetched |-> 0, result |-> listing.nodes_]]
  /\ UNCHANGED <<coreVars, versionCall, exec, sortCall, inspectApi>>

\* logsFetcher_ settles: listLogs() returns the tree (empty after an error
\* or without a response), ls() assigns nodes_ and calls mru_.add() or
\* mru_.remove()
FetchDone(c, empty) ==
  /\ listing.calls[c].pc = "fetching"
  /\ listing' =
       [listing EXCEPT
          !.nodes_ = [fetched |-> listing.calls[c].fetched, empty |-> empty],
          !.mruUpdates = @ + 1,
          !.calls[c].pc = "mru"]
  /\ UNCHANGED <<coreVars, versionCall, exec, sortCall, inspectApi>>

\* the MRU update settles: ls() returns from what nodes_ holds now
MruDone(c) ==
  /\ listing.calls[c].pc = "mru"
  /\ listing' = [listing EXCEPT !.calls[c].pc = "done",
                                !.calls[c].result = listing.nodes_]
  /\ UNCHANGED <<coreVars, versionCall, exec, sortCall, inspectApi>>

\* the caller has the nodes
LsReturn(c) ==
  /\ listing.calls[c].pc = "done"
  /\ listing' = [listing EXCEPT !.calls[c] = NoLs]
  /\ UNCHANGED <<coreVars, versionCall, exec, sortCall, inspectApi>>

\* invalidate()
Invalidate ==
  /\ listing.period < MaxInvalidate
  /\ listing' = [listing EXCEPT !.nodes_ = NoNodes, !.period = @ + 1,
                                !.fetches = 0, !.mruUpdates = 0]
  /\ UNCHANGED <<coreVars, versionCall, exec, sortCall, inspectApi>>

\* ---------------------------------------------------- package manager
NoEvent == [available |-> FALSE, binPath |-> Undefined]

\* the getter "available": packageBinPath_ !== null
Available == packageBinPath_ # Null

\* faulty variant: every check counts as a change
ValueChangedAlways(recorded, binPath) == TRUE

\* valueChanged: packageBinPath_ !== binPath?.path
ValueChanged(recorded, binPath) == recorded # PathOf(binPath)

\* updatePackageAvailable() when checkForPackage_() returns binPath and
\* packageTimer is set or not (timerSet): the event is fired on a changed
\* path (the view server's listener runs shutdown()), and watchForPackage()
\* sets a new interval timer, without clearing the one packageTimer names,
\* when the package is not found
UpdatePackageAvailable(binPath, timerSet) ==
  /\ lastCheck' = binPath
  /\ UNCHANGED managerDisposed
  /\ IF ValueChanged(packageBinPath_, binPath) THEN
       /\ packageBinPath_' = PathOf(binPath)
       /\ eventCount' = (eventCount + 1) % EventWrap
       /\ lastEvent' = [available |-> Truthy(PathOf(binPath)),
                        binPath |-> binPath]
       /\ Shutdown
     ELSE
       /\ UNCHANGED <<packageBinPath_, eventCount, lastEvent>>
       /\ UNCHANGED serverVars
  /\ IF binPath = Null THEN
       /\ packageTimer' = TRUE
       /\ leakedTimers' = IF timerSet THEN leakedTimers + 1 ELSE leakedTimers
     ELSE
       /\ packageTimer' = timerSet
       /\ UNCHANGED leakedTimers

\* pythonInterpreter().onDidChange: the props cache's listener resets the
\* cache, then the manager's listener checks for the package. The
\* subscriptions end when the extension context is disposed, which is when
\* the manager is disposed.
InterpreterChanged ==
  /\ UNCHANGED otherVars
  /\ ~managerDisposed
  /\ (envBin = Null /\ packageTimer) => leakedTimers < MaxLeaked
  /\ propsBin' = envBin
  /\ checkedSinceChange' = TRUE
  /\ UNCHANGED <<envBin, envVer>>
  /\ UpdatePackageAvailable(envBin, packageTimer)

\* a tick of an interval timer set by watchForPackage(): when the package
\* is found and packageTimer is set, the timer packageTimer names is cleared
\* and the manager updates
TimerTick ==
  /\ UNCHANGED otherVars
  /\ packageTimer \/ leakedTimers > 0
  /\ propsBin' = PackageBinPath
  /\ UNCHANGED <<envBin, envVer>>
  /\ IF PackageBinPath # Null /\ packageTimer THEN
       /\ checkedSinceChange' = TRUE
       /\ UpdatePackageAvailable(PackageBinPath, FALSE)
     ELSE
       /\ UNCHANGED <<managerVars, serverVars, checkedSinceChange>>

\* PackageManager.dispose(): the timer packageTimer names is cleared
ManagerDispose ==
  /\ packageTimer' = FALSE
  /\ managerDisposed' = TRUE
  /\ UNCHANGED <<packageBinPath_, leakedTimers, lastCheck, eventCount,
                 lastEvent>>
  /\ UNCHANGED <<serverVars, envVars, otherVars>>

\* the environment: the package is installed, removed or moved, at the
\* version the environment has
EnvChange(bin) ==
  /\ UNCHANGED otherVars
  /\ bin # envBin
  /\ envBin' = bin
  /\ UNCHANGED <<envVer, propsBin, checkedSinceChange, managerVars, serverVars>>

\* the environment: the installed package changes version in place
EnvUpgrade(ver) ==
  /\ UNCHANGED otherVars
  /\ envBin # Null
  /\ ver # envVer
  /\ envVer' = ver
  /\ checkedSinceChange' = FALSE
  /\ UNCHANGED <<envBin, propsBin, managerVars, serverVars>>

\* ------------------------------------------------------ specification
\* The state after the PackageManager (whose constructor runs one package
\* check) and the PackageViewServer are constructed.
Init ==
  /\ serverProcess_ = NoProcess
  /\ serverPort_ = UndefinedPort
  /\ serverAuthToken_ = EmptyToken
  /\ procs = <<>>
  /\ lockHolder = "none"
  /\ lockQueue = <<>>
  /\ pc = [c \in Callers |-> "idle"]
  /\ nTokens = 0
  /\ lastRequest = NoRequest
  /\ envBin \in BinPaths \cup {Null}
  /\ envVer = 1
  /\ propsBin = envBin
  /\ packageBinPath_ = PathOf(envBin)
  /\ packageTimer = (envBin = Null)
  /\ leakedTimers = 0
  /\ lastCheck = envBin
  /\ eventCount = IF envBin # Null THEN 1 ELSE 0
  /\ lastEvent = IF envBin # Null
                 THEN [available |-> TRUE, binPath |-> envBin] ELSE NoEvent
  /\ managerDisposed = FALSE
  /\ checkedSinceChange = TRUE
  /\ inspect = NoInspect
  /\ apiResult = NoResult
  /\ proxyResult = NoResult
  /\ signalFiles = [f \in SignalFiles |-> NoFile]
  /\ clock = 0
  /\ watcher = [lastLog_ |-> 0, lastScan_ |-> 0, watching |-> TRUE,
                last |-> NoPoll]
  /\ versionCall = NoVersionCall
  /\ exec = NoExec
  /\ sortCall = NoSortCall
  /\ inspectApi = NoInspectApi
  /\ listing = NoListing

\* The view server and the props cache it reads. The package manager is
\* its environment here: onPackageChanged may fire at any time.
Next ==
  \/ \E c \in Callers : Call(c)
  \/ \E c \in Callers : Return(c)
  \/ \E c \in Callers : PortFail(c)
  \/ \E c \in Callers, port \in Ports : PortFound(c, port)
  \/ \E p \in 1..MaxSpawn, chunk \in Chunks : ProcOutput(p, chunk)
  \/ \E p \in 1..MaxSpawn : ProcExit(p)
  \/ \E p \in 1..MaxSpawn : ProcClose(p)
  \/ Dispose
  \/ PackageChanged
  \/ PropsReset
  \/ \E bin \in BinPaths \cup {Null} : EnvChange(bin)

Spec == Init /\ [][Next]_vars

\* The view server together with the package manager that fires the event
\* (each interpreter change runs the props cache's listener and then the
\* manager's), in an environment where the package is also upgraded in
\* place, with the calls of a single client.
NextPM ==
  \/ Call("c1")
  \/ Return("c1")
  \/ PortFail("c1")
  \/ \E port \in Ports : PortFound("c1", port)
  \/ \E p \in 1..MaxSpawn, chunk \in Chunks : ProcOutput(p, chunk)
  \/ \E p \in 1..MaxSpawn : ProcExit(p)
  \/ \E p \in 1..MaxSpawn : ProcClose(p)
  \/ Dispose
  \/ InterpreterChanged
  \/ TimerTick
  \/ \E bin \in BinPaths \cup {Null} : EnvChange(bin)
  \/ \E ver \in Versions : EnvUpgrade(ver)

SpecPM == Init /\ [][NextPM]_vars

\* The scout and the inspect view server side by side, each with the calls
\* of one client.
NextTwo ==
  \/ Call("c1")
  \/ Return("c1")
  \/ PortFail("c1")
  \/ \E port \in Ports : PortFound("c1", port)
  \/ \E p \in 1..MaxSpawn, chunk \in Chunks : ProcOutput(p, chunk)
  \/ \E p \in 1..MaxSpawn : ProcExit(p)
  \/ \E p \in 1..MaxSpawn : ProcClose(p)
  \/ Dispose
  \/ InspectCall
  \/ InspectAcquire
  \/ InspectPortFound
  \/ \E chunk \in Chunks : InspectOutput(chunk)
  \/ InspectExit
  \/ InspectReturn
  \/ InspectDispose

SpecTwo == Init /\ [][NextTwo]_vars

\* The view server with one client whose requests are answered.
NextApi ==
  \/ Call("c1")
  \/ Return("c1")
  \/ PortFail("c1")
  \/ \E port \in Ports : PortFound("c1", port)
  \/ \E p \in 1..MaxSpawn, chunk \in Chunks : ProcOutput(p, chunk)
  \/ \E p \in 1..MaxSpawn : ProcExit(p)
  \/ \E p \in 1..MaxSpawn : ProcClose(p)
  \/ Dispose
  \/ \E status \in Statuses, body \in Bodies, binary \in BOOLEAN,
        handler \in Handlers : ApiRespond("c1", status, body, binary, handler)

SpecApi == Init /\ [][NextApi]_vars

\* The view server with one client of the webview proxy. The server stays
\* up: the claim checked here is about the responses it serialises.
NextProxy ==
  \/ Call("c1")
  \/ \E port \in Ports : PortFound("c1", port)
  \/ \E p \in 1..MaxSpawn, chunk \in Chunks : ProcOutput(p, chunk)
  \/ \E status \in {StatusOK, StatusNotFound}, contentType \in ContentTypes,
        payload \in Payloads : ProxyRespond("c1", status, contentType, payload)
  \/ ProxyReply

SpecProxy == Init /\ [][NextProxy]_vars

\* The package manager by itself, in an environment where the package is
\* installed, removed and upgraded.
NextMgr ==
  \/ InterpreterChanged
  \/ TimerTick
  \/ ManagerDispose
  \/ \E bin \in BinPaths \cup {Null} : EnvChange(bin)
  \/ \E ver \in Versions : EnvUpgrade(ver)

SpecMgr == Init /\ [][NextMgr]_vars

\* The output watcher and the processes that write the signal files.
NextWatch ==
  \/ \E jsonFormat \in BOOLEAN : Poll(jsonFormat)
  \/ WatcherDispose
  \/ ClockTick
  \/ \E f \in SignalFiles, contents \in Contents : WriteSignal(f, contents)

SpecWatch == Init /\ [][NextWatch]_vars

\* The package version functions, called with every version in the bounds.
NextVersion ==
  \/ /\ versionCall = NoVersionCall
     /\ \E version \in SemVers, packageVersion \in VersionDescriptors,
           strictDevCheck \in BOOLEAN :
           HasMinimumCall(version, packageVersion, strictDevCheck)
  \/ /\ versionCall = NoVersionCall
     /\ \E version \in SemVers, packageVersion \in VersionDescriptors,
           hasValue \in CallbackValues, noValue \in CallbackValues :
           WithMinimumCall(version, packageVersion, hasValue, noValue)
  \/ VersionReturn

SpecVersion == Init /\ [][NextVersion]_vars

\* The ExecManager of one profile, its terminal and its debug sessions.
NextExec ==
  \/ \E profile \in Profiles, packageVersion \in ExecVersions :
        ExecActivate(profile, packageVersion)
  \/ \E debug \in BOOLEAN, target \in BOOLEAN, python \in BOOLEAN :
        Start(debug, target, python)
  \/ WarningDismissed
  \/ DebugStarted
  \/ SleepElapsed
  \/ \E name \in exec.terminals : TerminalInteract(name)

SpecExec == Init /\ [][NextExec]_vars

\* sortLogTree, called with every tree in the bounds.
NextSort ==
  \/ /\ ~sortCall.called
     /\ \E nodes \in LogTrees : SortCall(Named(nodes, <<>>))
  \/ SortReturn

SpecSort == Init /\ [][NextSort]_vars

\* The InspectViewServer, its public methods and the installed Inspect.
NextInspect ==
  \/ \E version \in InspectVersions : InspectInstall(version)
  \/ \E method \in Methods : InspectMethod(method)
  \/ InspectAcquire
  \/ InspectPortFound
  \/ \E chunk \in Chunks : InspectOutput(chunk)
  \/ InspectExit
  \/ InspectFetch
  \/ InspectMethodDone
  \/ InspectDispose

SpecInspect == Init /\ [][NextInspect]_vars

\* The LogListing with two clients of ls() and the tree's refresh.
NextListing ==
  \/ \E c \in Callers : Ls(c)
  \/ \E c \in Callers, empty \in BOOLEAN : FetchDone(c, empty)
  \/ \E c \in Callers : MruDone(c)
  \/ \E c \in Callers : LsReturn(c)
  \/ Invalidate

SpecListing == Init /\ [][NextListing]_vars

TypeOK ==
  /\ serverProcess_ \in 0..Len(procs)
  /\ serverPort_ \in Ports \cup {UndefinedPort}
  /\ serverAuthToken_ \in 0..MaxTokens
  /\ Len(procs) <= MaxSpawn
  /\ lockHolder \in Callers \cup {"none"}
  /\ Range(lockQueue) \subseteq Callers
  /\ \A c \in Callers : (pc[c] = "waiting") = (c \in Range(lockQueue))
  /\ \A c \in Callers : (pc[c] \in {"findPort", "launching"}) = (lockHolder = c)
  /\ \A p \in 1..Len(procs) :
       procs[p].promise = "pending" =>
         /\ p = Len(procs)
         /\ lockHolder # "none" /\ pc[lockHolder] = "launching"
  /\ (lockHolder # "none" /\ pc[lockHolder] = "launching") =>
       procs[Len(procs)].promise = "pending"


\* ------------------------------------------------------------ claims
Rejected == {"notFound", "spawnError", "portError"}
Alive(p) == procs[p].status \in {"running", "killed"}
HandleLive == serverProcess_ # NoProcess
              /\ procs[serverProcess_].exitCode = NullExit
\* readiness was observed on the live stored handle
Ready == HandleLive /\ procs[serverProcess_].resolved

\* C1: at most one child process spawned by the instance and not yet exited
\* exists in every reachable state, and a call starts a launch only when the
\* stored handle is absent or has a non-null exitCode.
C1_AtMostOneLiveChild ==
  /\ [](Cardinality({ p \in 1..Len(procs) : Alive(p) }) <= 1)
  /\ [][\A c \in Callers :
          (pc[c] # "findPort" /\ pc'[c] = "findPort") =>
            NeedsLaunch(serverProcess_, procs)]_vars

C3_ExitBeforeReadyRejects ==
  \A p \in 1..Len(procs) :
    (procs[p].status = "closed" /\ procs[p].out # "has") =>
      /\ procs[p].promise = "rejected"
      /\ ~(lockHolder # "none" /\ pc[lockHolder] = "launching"
             /\ p = Len(procs))

\* C4: after shutdown() the next ensureRunning() can launch a new process,
\* also when shutdown() came while a launch was in flight: the startup lock
\* is never left held by a launch whose (killed) process is gone.
C4_RestartAfterShutdown ==
  (serverAuthToken_ = EmptyToken /\ lockHolder # "none"
     /\ pc[lockHolder] = "launching") =>
    procs[Len(procs)].status # "closed"

\* C5: every request sent carries the token of the live server process and
\* targets its port; none carries the cleared token or an undefined port.
C5_RequestsCarryLiveToken ==
  lastRequest.sent =>
    /\ lastRequest.auth # EmptyToken
    /\ lastRequest.port # UndefinedPort
    /\ lastRequest.proc # NoProcess
    /\ procs[lastRequest.proc].token = lastRequest.auth
    /\ procs[lastRequest.proc].port = lastRequest.port

\* C6 (as claimed): a call that rejects with package-not-found has spawned
\* nothing and has not invoked findOpenPort (it was never waiting for a port).
C6_NotFoundSkipsPortAllocator ==
  [][\A c \in Callers :
       (pc[c] # "notFound" /\ pc'[c] = "notFound") =>
         /\ procs' = procs
         /\ pc[c] # "findPort"]_vars

\* C6 (amended): when findOpenPort returns and the binary path is null, the
\* call rejects with package-not-found and spawns nothing; findOpenPort was
\* invoked and awaited before that, and serverPort_ and serverAuthToken_ hold
\* the newly allocated port and a newly generated token.
C6_NotFoundAfterPortAllocation ==
  [][\A c \in Callers :
       (pc[c] = "findPort" /\ pc'[c] \notin {"findPort", "portError"}
          /\ PackageBinPath = Null) =>
         /\ pc'[c] = "notFound"
         /\ procs' = procs
         /\ serverProcess_' = NoProcess
         /\ serverPort_' \in Ports
         /\ serverAuthToken_' = nTokens + 1
         /\ nTokens' = nTokens + 1]_vars

\* C6 witness: a call has been rejected with package-not-found.
C6_Witness ==
  \E c \in Callers :
    pc[c] = "notFound" /\ procs = <<>> /\ serverPort_ \in Ports

\* C7: once the output of the launched process contains "Running on ", the
\* launch promise is no longer pending.
C7_CombinedOutputResolves ==
  \A p \in 1..Len(procs) :
    procs[p].out = "has" => procs[p].promise # "pending"

\* C8: a launch promise is resolved only when the process's output contains
\* "Running on "; while the process is alive and its output does not contain
\* it, the promise and the call that launched stay pending.
C8_NoResolveBeforeSentinel ==
  /\ [](\A p \in 1..Len(procs) :
          procs[p].promise = "resolved" => procs[p].out = "has")
  /\ [][\A p \in 1..Len(procs) :
          (procs[p].promise = "pending" /\ procs'[p].out # "has"
             /\ procs'[p].status \in {"running", "killed"}) =>
            /\ procs'[p].promise = "pending"
            /\ pc'[lockHolder] = "launching"
            /\ lockHolder' = lockHolder]_vars
  /\ [][\A c \in Callers :
          (pc[c] = "launching" /\ pc'[c] = "resolved") =>
            procs'[Len(procs)].out = "has"]_vars

\* C8 witness: a launch was resolved by a process whose output has the sentinel.
C8_Witness ==
  \E p \in 1..Len(procs) :
    procs[p].promise = "resolved" /\ procs[p].out = "has"

\* C9: while the stored handle is live and readiness was observed, a call
\* returns at once, spawns nothing and leaves handle, port and token alone.
C9_IdempotentWhenRunning ==
  [][\A c \in Callers :
       (Ready /\ pc[c] = "idle" /\ pc'[c] # "idle") =>
         /\ pc'[c] = "resolved"
         /\ procs' = procs
         /\ serverProcess_' = serverProcess_
         /\ serverPort_' = serverPort_
         /\ serverAuthToken_' = serverAuthToken_
         /\ nTokens' = nTokens]_vars

\* C9 witness: both calls returned on the one process that is running.
C9_Witness ==
  /\ Ready
  /\ Len(procs) = 1
  /\ \A c \in Callers : pc[c] = "resolved"

\* C10: once the installed package changed version and the manager has run a
\* package check, no call reuses a process launched before the change.
C10_VersionChangeShutsDown ==
  [][\A c \in Callers :
       (pc[c] = "idle" /\ pc'[c] = "resolved" /\ checkedSinceChange) =>
         procs[serverProcess_].ver = envVer]_vars

\* readiness was observed on the stored handle, and its process has exited
ExitedAfterReady ==
  /\ serverProcess_ # NoProcess
  /\ procs[serverProcess_].resolved
  /\ procs[serverProcess_].exitCode # NullExit

Cleared ==
  /\ serverProcess_ = NoProcess
  /\ serverPort_ = UndefinedPort
  /\ serverAuthToken_ = EmptyToken

\* C12: dispose() leaves the handle absent, the port undefined and the token
\* empty, and in that state a further dispose() (shutdown() and the disposal
\* of the output channel) changes nothing: no process is signalled and no
\* field changes.
C12_DisposeIdempotent ==
  /\ [][Dispose => Cleared']_vars
  /\ [](Cleared => ~ENABLED (Dispose /\ vars' # vars))

\* C12 witness: dispose() has killed the running process and cleared the
\* fields.
C12_Witness ==
  /\ Cleared
  /\ \E p \in 1..Len(procs) : procs[p].status = "killed" /\ procs[p].resolved

scoutFields == <<serverProcess_, serverPort_, serverAuthToken_, procs,
                 lockHolder, lockQueue, pc>>

\* the scout instance's launch can never complete: its process is gone
ScoutLaunchStuck ==
  /\ lockHolder # "none" /\ pc[lockHolder] = "launching"
  /\ procs[Len(procs)].status = "closed"

\* C13: a call on the inspect instance that asks for its startup lock is
\* never kept waiting by the scout instance, whatever state the scout
\* instance's launch is in; no step of one instance changes the lock, handle,
\* port or token of the other; and the two never hold the same port or token.
C13_InstancesIndependent ==
  /\ [](inspect.pc = "acquiring" => ENABLED InspectAcquire)
  /\ [][scoutFields' # scoutFields => inspect' = inspect]_vars
  /\ [][inspect' # inspect => scoutFields' = scoutFields]_vars
  /\ [](serverPort_ # UndefinedPort => serverPort_ # inspect.serverPort_)
  /\ [](serverAuthToken_ # EmptyToken =>
          serverAuthToken_ # inspect.serverAuthToken_)

\* C13 witness: the scout instance's launch never completes (its process
\* exited before readiness and the lock stays held) and a call on the
\* inspect instance, made after that, has launched and resolved.
C13_Witness ==
  /\ ScoutLaunchStuck
  /\ inspect.pc = "resolved"
  /\ inspect.serverAuthToken_ > procs[Len(procs)].token

\* C14: for a response with a non-2xx status, api() returns the string the
\* handler gives for that status (404 -> "NotFound", 304 -> "NotModified") as
\* its data; with no handler, or a handler that gives nothing for the status,
\* it throws an error with the status and the body, or the status text when
\* the body is empty; and handling a response changes neither the process
\* handle nor the port nor the token.
C14_ApiErrorHandling ==
  /\ [](apiResult.kind # "none" =>
          LET in == apiResult.input
              mapped == in.handler = "signals"
                          /\ in.status \in {StatusNotFound, StatusNotModified}
          IN ~ResponseOk(in.status) =>
               IF mapped THEN
                 /\ apiResult.kind = "data"
                 /\ apiResult.data = IF in.status = StatusNotFound
                                     THEN "NotFound" ELSE "NotModified"
               ELSE
                 /\ apiResult.kind = "error"
                 /\ apiResult.status = in.status
                 /\ apiResult.message = IF in.body # "" THEN in.body
                                        ELSE StatusText(in.status))
  /\ [][apiResult' # apiResult =>
          /\ serverProcess_' = serverProcess_
          /\ serverPort_' = serverPort_
          /\ serverAuthToken_' = serverAuthToken_
          /\ procs' = procs]_vars

\* C14 witness: the running server answered 404 to a call with the handler,
\* and the call returned "NotFound".
C14_Witness ==
  /\ apiResult.kind = "data"
  /\ apiResult.input.status = StatusNotFound
  /\ apiResult.data = "NotFound"
  /\ Ready

\* the decoder of the receiving side: four characters give three bytes, a
\* padded last group gives one or two
RECURSIVE Base64Decode(_)
Base64Decode(chars) ==
  IF Len(chars) < 4 THEN <<>>
  ELSE LET a == chars[1]
           b == chars[2]
           c == chars[3]
           d == chars[4]
           rest == Base64Decode(SubSeq(chars, 5, Len(chars)))
       IN IF c = Pad THEN <<a * 4 + b \div 16>> \o rest
          ELSE IF d = Pad THEN
            <<a * 4 + b \div 16, (b % 16) * 16 + c \div 4>> \o rest
          ELSE <<a * 4 + b \div 16, (b % 16) * 16 + c \div 4,
                 (c % 4) * 64 + d>> \o rest

\* C15: proxyRpcRequest returns bodyEncoding "base64" exactly when the data
\* of the response is a byte array, and then decoding the body gives the
\* bytes of the response, as many and the same; otherwise it returns the
\* text of the response as it is, with bodyEncoding "utf8".
C15_BinaryRoundTrip ==
  proxyResult.kind # "none" =>
    LET in == proxyResult.input
    IN /\ (proxyResult.bodyEncoding = "base64") = IsBinary(in.contentType)
       /\ proxyResult.bodyEncoding \in {"base64", "utf8"}
       /\ IsBinary(in.contentType) =>
            /\ Len(Base64Decode(proxyResult.body)) = Len(in.payload)
            /\ Base64Decode(proxyResult.body) = in.payload
       /\ ~IsBinary(in.contentType) =>
            proxyResult.body = Utf8Decode(in.payload)

\* C15 witness: a binary response whose length is no multiple of three was
\* proxied as base64.
C15_Witness ==
  /\ proxyResult.kind = "response"
  /\ proxyResult.bodyEncoding = "base64"
  /\ Len(proxyResult.input.payload) = MaxBytes
  /\ proxyResult.input.payload[MaxBytes] = 255

\* C16: in every state after construction, "available" is true exactly when
\* the most recent package check returned a binary path.
C16_AvailableMatchesLastCheck == Available = (lastCheck # Null)

\* C17: the path recorded is the one the last check returned; an event is
\* fired, one at a time and carrying the path returned, only by a check
\* whose path differs from the one recorded before it; and a step that
\* fires no event leaves the recorded path as it was, so that checks with
\* the same result fire nothing.
C17_EventOnChangedPath ==
  /\ [](packageBinPath_ = PathOf(lastCheck))
  /\ [][IF eventCount' # eventCount THEN
          /\ eventCount' = (eventCount + 1) % EventWrap
          /\ PathOf(lastCheck') # packageBinPath_
          /\ lastEvent'.binPath = lastCheck'
          /\ lastEvent'.available = (lastCheck' # Null)
        ELSE
          /\ packageBinPath_' = packageBinPath_
          /\ lastEvent' = lastEvent]_vars

\* C17 witness: after the package was found at construction, a check that
\* returned null fired the event for the change to "not found", and a later
\* check with the same result has set a second timer without an event.
C17_Witness ==
  /\ lastEvent = [available |-> FALSE, binPath |-> Null]
  /\ eventCount = 2
  /\ leakedTimers > 0

\* the interval timers that are active
ActiveTimers == (IF packageTimer THEN 1 ELSE 0) + leakedTimers

\* C18: at most one package-watch timer is active, a timer is active only
\* while the package is unavailable, and none is active after dispose().
C18_AtMostOneTimer ==
  /\ ActiveTimers <= 1
  /\ ActiveTimers > 0 => lastCheck = Null
  /\ managerDisposed => ActiveTimers = 0

\* C19: a timer tick that finds the package, after the manager recorded it
\* as unavailable, records it as available, fires exactly one event with
\* available = true, and leaves no timer polling.
C19_TickRecordsAvailable ==
  [][(TimerTick /\ lastCheck = Null /\ packageTimer /\ PackageBinPath # Null)
       =>
         /\ lastCheck' = PackageBinPath
         /\ packageBinPath_' = PathOf(PackageBinPath)
         /\ eventCount' = (eventCount + 1) % EventWrap
         /\ lastEvent' = [available |-> TRUE, binPath |-> PackageBinPath]
         /\ ActiveTimers' = 0]_vars

\* the first watched file of its type: the times of no other file decide
\* whether it is due
FirstOfType(f) == \A g \in 1..(f - 1) : SignalTypes[g] # SignalTypes[f]

\* C20: no exception leaves the poll callback, and a poll in which one signal
\* file cannot be parsed still processes the other files of the cycle: a
\* file that is newer than the time recorded for its type, and whose
\* contents give a log path, has its event fired in that poll.
C20_MalformedSignalSkipped ==
  /\ [](~watcher.last.threw)
  /\ [][\A jsonFormat \in BOOLEAN :
          Poll(jsonFormat) =>
            \A f \in SignalFiles :
              (/\ FirstOfType(f)
               /\ signalFiles[f] # NoFile
               /\ signalFiles[f].mtime >
                    (IF SignalTypes[f] = "log" THEN watcher.lastLog_
                     ELSE watcher.lastScan_)
               /\ ~ParseThrows(signalFiles[f].contents)
               /\ HasLogPath(signalFiles[f].contents, jsonFormat))
              => \E k \in 1..Len(watcher'.last.fired) :
                   watcher'.last.fired[k].file = f]_vars

\* the time recorded for a type of signal file
LastTime(type, w) == IF type = "log" THEN w.lastLog_ ELSE w.lastScan_

\* how many events the last poll fired for file f
FiredFor(f, w) ==
  Cardinality({ k \in 1..Len(w.last.fired) : w.last.fired[k].file = f })

\* C21: a poll fires an event for a signal file only when the file's
\* modification time is strictly greater than the time recorded for its
\* type, and then that time is recorded (so the same time cannot fire
\* again); the time of a type changes only to the time of a file of that
\* type; and a file that was due is fired in the poll or is still due after
\* it, whatever the files of the other type hold.
C21_FiresOnlyWhenNewer ==
  [][\A jsonFormat \in BOOLEAN :
       Poll(jsonFormat) =>
         /\ \A k \in 1..Len(watcher'.last.fired) :
              LET ev == watcher'.last.fired[k]
              IN /\ ev.type = SignalTypes[ev.file]
                 /\ signalFiles[ev.file] # NoFile
                 /\ signalFiles[ev.file].mtime > LastTime(ev.type, watcher)
                 /\ LastTime(ev.type, watcher') >= signalFiles[ev.file].mtime
                 /\ FiredFor(ev.file, watcher') = 1
         /\ \A type \in {"log", "scan"} :
              LastTime(type, watcher') # LastTime(type, watcher) =>
                \E f \in SignalFiles :
                  /\ SignalTypes[f] = type
                  /\ signalFiles[f] # NoFile
                  /\ signalFiles[f].mtime = LastTime(type, watcher')
                  /\ signalFiles[f].mtime > LastTime(type, watcher)
         /\ \A f \in SignalFiles :
              (/\ FirstOfType(f)
               /\ signalFiles[f] # NoFile
               /\ signalFiles[f].mtime > LastTime(SignalTypes[f], watcher)
               /\ ~ParseThrows(signalFiles[f].contents)
               /\ HasLogPath(signalFiles[f].contents, jsonFormat))
              => \/ FiredFor(f, watcher') = 1
                 \/ LastTime(SignalTypes[f], watcher')
                      = LastTime(SignalTypes[f], watcher)]_vars

\* C21 witness: one poll fired a log event and a scan event, and the times
\* recorded for the two types differ.
C21_Witness ==
  /\ \E k \in 1..Len(watcher.last.fired) : watcher.last.fired[k].type = "log"
  /\ \E k \in 1..Len(watcher.last.fired) : watcher.last.fired[k].type = "scan"
  /\ watcher.lastLog_ # watcher.lastScan_

Max(S) == CHOOSE x \in S : \A y \in S : y <= x

\* the time recorded for the type of file f when a poll's loop reaches it:
\* the newest time among the recorded one and the earlier files of the type
RunningLast(f) ==
  Max({LastTime(SignalTypes[f], watcher)} \cup
      { signalFiles[g].mtime :
          g \in { h \in 1..(f - 1) : SignalTypes[h] = SignalTypes[f]
                                       /\ signalFiles[h] # NoFile } })

\* an earlier file ends the poll's loop with an exception
ThrewBefore(f, jsonFormat) ==
  \E g \in 1..(f - 1) :
    /\ jsonFormat
    /\ signalFiles[g] # NoFile
    /\ signalFiles[g].mtime > RunningLast(g)
    /\ ParseThrows(signalFiles[g].contents)

C22_StrictDevCheck ==
  (/\ versionCall.fn = "hasMinimumPackageVersion"
   /\ versionCall.packageVersion # NoVersion
   /\ versionCall.packageVersion.isDeveloperBuild
   /\ versionCall.strictDevCheck)
  => versionCall.result =
       (Compare(versionCall.packageVersion.version, versionCall.version) > 0)

\* C23: without strictDevCheck, hasMinimumPackageVersion is false for a null
\* package version, true for every developer build, and for a release true
\* exactly when installed >= required; withMinimumPackageVersion runs
\* exactly one callback, hasVersion when that check is true and
\* doesntHaveVersion otherwise, and returns its value.
C23_MinimumVersion ==
  /\ (versionCall.fn = "hasMinimumPackageVersion"
        /\ ~versionCall.strictDevCheck) =>
       versionCall.result =
         IF versionCall.packageVersion = NoVersion THEN FALSE
         ELSE IF versionCall.packageVersion.isDeveloperBuild THEN TRUE
         ELSE Compare(versionCall.packageVersion.version,
                      versionCall.version) >= 0
  /\ versionCall.fn = "withMinimumPackageVersion" =>
       LET met ==
             /\ versionCall.packageVersion # NoVersion
             /\ (versionCall.packageVersion.isDeveloperBuild
                   \/ Compare(versionCall.packageVersion.version,
                              versionCall.version) >= 0)
       IN /\ Len(versionCall.result.called) = 1
          /\ versionCall.result.called[1] =
               IF met THEN "hasVersion" ELSE "doesntHaveVersion"
          /\ versionCall.result.returned =
               IF met THEN versionCall.hasValue ELSE versionCall.noValue

\* C23 witness: a developer build behind the minimum took the hasVersion
\* callback and its value was returned.
C23_Witness ==
  /\ versionCall.fn = "withMinimumPackageVersion"
  /\ versionCall.packageVersion # NoVersion
  /\ versionCall.packageVersion.isDeveloperBuild
  /\ Compare(versionCall.packageVersion.version, versionCall.version) < 0
  /\ versionCall.hasValue # versionCall.noValue
  /\ versionCall.result.returned = versionCall.hasValue

\* C24: ExecManager.start() with profile.packageVersion = null shows the
\* 'package not installed' warning (worded "Debug" or "Run" after its debug
\* argument) and returns: no terminal is created or written to and no debug
\* session is started, whatever the debug argument.
C24_NotInstalledOnlyWarns ==
  (exec.active /\ exec.packageVersion = NoVersion) =>
    /\ exec.created = 0
    /\ exec.terminals = {}
    /\ exec.sent = <<>>
    /\ exec.sessions = <<>>
    /\ exec.pc \in {"idle", "warning"}
    /\ Len(exec.warnings) = Len(exec.calls)
    /\ \A i \in 1..Len(exec.calls) :
         exec.warnings[i] = WarningMessage(exec.profile, exec.calls[i].debug)

\* start() was called with debug = false and with debug = true on a profile
\* without a package version, and both calls have returned
C24_Witness ==
  /\ exec.active
  /\ exec.packageVersion = NoVersion
  /\ exec.pc = "idle"
  /\ \E i, j \in 1..Len(exec.calls) :
       exec.calls[i].debug /\ ~exec.calls[j].debug

\* the position of the node called name in nodes
IndexOf(nodes, name) == CHOOSE i \in 1..Len(nodes) : nodes[i].name = name

\* out holds the nodes of in, level by level: directories first and in their
\* original relative order, then files from the newest to the oldest
RECURSIVE SortedAs(_, _)
SortedAs(out, in) ==
  /\ Len(out) = Len(in)
  /\ \A i \in 1..Len(in) : \E j \in 1..Len(out) :
       /\ out[j].name = in[i].name
       /\ out[j].type = in[i].type
       /\ out[j].mtime = in[i].mtime
       /\ SortedAs(out[j].children, in[i].children)
  /\ \A i, j \in 1..Len(out) :
       i < j =>
         /\ ~(out[i].type = "file" /\ out[j].type = "dir")
         /\ (out[i].type = "dir" /\ out[j].type = "dir") =>
              IndexOf(in, out[i].name) < IndexOf(in, out[j].name)
         /\ (out[i].type = "file" /\ out[j].type = "file") =>
              out[i].mtime >= out[j].mtime

\* C25: sortLogTree returns the nodes of its input and no others; at every
\* level of the tree all directories come before all files, the directories
\* in their original relative order and the files in non-increasing order
\* of mtime.
C25_SortLogTree ==
  sortCall.called => SortedAs(sortCall.result, sortCall.nodes)

\* a tree that begins with an old file, then a newer file, then a directory
\* whose children are out of order too, has been sorted
C25_Witness ==
  /\ sortCall.called
  /\ Len(sortCall.nodes) >= 3
  /\ sortCall.nodes[1].type = "file"
  /\ sortCall.nodes[2].type = "file"
  /\ sortCall.nodes[1].mtime < sortCall.nodes[2].mtime
  /\ sortCall.nodes[3].type = "dir"
  /\ Len(sortCall.nodes[3].children) = 2
  /\ sortCall.nodes[3].children[1].type = "file"
  /\ sortCall.nodes[3].children[2].type = "dir"
  /\ sortCall.result[1].children # sortCall.nodes[3].children

\* C26: whenever the stored handle is live (exitCode null), serverPort_ is
\* the --port value and serverAuthToken_ the authorization token this very
\* process was spawned with; and from one state to the next neither field
\* changes while the same handle stays stored and live.
C26_FieldsMatchLiveProcess ==
  /\ [](HandleLive =>
          /\ serverPort_ = procs[serverProcess_].port
          /\ serverAuthToken_ = procs[serverProcess_].token)
  /\ [][(HandleLive /\ HandleLive' /\ serverProcess_' = serverProcess_) =>
          /\ serverPort_' = serverPort_
          /\ serverAuthToken_' = serverAuthToken_]_vars

\* the second process of the instance is the live handle: it was spawned on
\* another port and with another token than the first
C26_Witness ==
  /\ HandleLive
  /\ serverProcess_ = 2
  /\ procs[2].port # procs[1].port
  /\ procs[2].token # procs[1].token
  /\ serverPort_ = procs[2].port
  /\ serverAuthToken_ = procs[2].token

\* C28 (as claimed): an ensureRunning() call that fails because the binary
\* path cannot be resolved leaves serverPort_ and serverAuthToken_ as they
\* were and leaves the manager without a process handle.
C28_NotFoundKeepsEndpoint ==
  [][\A c \in Callers :
       (pc[c] # "notFound" /\ pc'[c] = "notFound") =>
         /\ serverPort_' = serverPort_
         /\ serverAuthToken_' = serverAuthToken_
         /\ serverProcess_' = NoProcess]_vars

\* C28 (amended): an ensureRunning() call that fails because the binary path
\* cannot be resolved leaves the manager without a process handle and spawns
\* nothing, but it does not keep the endpoint: serverAuthToken_ becomes a
\* token that neither the fields nor any process held before, and
\* serverPort_ the port findOpenPort returned.
C28_NotFoundStoppedNewEndpoint ==
  [][\A c \in Callers :
       (pc[c] # "notFound" /\ pc'[c] = "notFound") =>
         /\ serverProcess_ = NoProcess
         /\ serverProcess_' = NoProcess
         /\ procs' = procs
         /\ serverAuthToken_' # serverAuthToken_
         /\ serverAuthToken_' # EmptyToken
         /\ \A p \in 1..Len(procs) : procs[p].token # serverAuthToken_'
         /\ serverPort_' \in FindOpenPort]_vars

\* a call failed with package-not-found after an earlier launch of the
\* instance: the fields hold a newer token than the one of that launch
C28_Witness ==
  \E c \in Callers :
    /\ pc[c] = "notFound"
    /\ Len(procs) = 1
    /\ serverProcess_ = NoProcess
    /\ serverAuthToken_ > procs[1].token
    /\ serverPort_ \in Ports

\* C27: the InspectViewServer never issues an HTTP request while no server
\* process has been launched: with an Inspect below the eval-log-format
\* minimum (whose ensureRunning() starts nothing) every public method uses
\* the CLI, throws 'not implemented' or returns, and none reaches fetch().
C27_NoRequestWithoutServer ==
  inspectApi.outcome = "fetch" => inspect.procs # <<>>

\* C30: between construction or an invalidate() and the next invalidate()
\* the LogListing invokes logsFetcher_ at most once and updates the MRU at
\* most once, however many ls() calls are made or overlap; and an ls() call
\* made after an invalidate() never returns nodes fetched before it.
C30_OneFetchPerInvalidation ==
  /\ listing.fetches <= 1
  /\ listing.mruUpdates <= 1
  /\ \A c \in Callers :
       (listing.calls[c].pc = "done"
          /\ ~NodesUndefined(listing.calls[c].result)) =>
         listing.calls[c].result.fetched >= listing.calls[c].started

====
